---- MODULE Spec2Model ----
(***************************************************************************)
(* A model of vscope (src/vscope/vscope.py): the pagination planner, the   *)
(* metadata fetch pool with its single aggregator, the single-page inline  *)
(* path, and the image cache pool, each with its Queue.join() barrier.     *)
(*                                                                         *)
(* threads.py and shared.py are not among the sources at hand; the worker  *)
(* bodies (ThreadMetadataRequest, ThreadJSONWriter, ThreadCacheImageData)  *)
(* and list_of_dicts_to_dict / load_json / dump_json are modelled from the *)
(* natural-language specification.                                         *)
(***************************************************************************)
EXTENDS Integers, Sequences, FiniteSets, TLC

\* ---------------------------------------------------------------- bounds
\* Largest number of pages the probe's total calls for in a modelled run.
MaxPages == 2
\* Planner inputs explored by the planner specification.
MaxTotal == 6
MaxPageSize == 3
MaxLimit == 3
\* Largest number of entries in the store the image cache run works from.
MaxImages == 2

\* ------------------------------------------------------ program constants
\* requests.status_codes.codes.all_good
codes_all_good == 200
\* _fetch_media_urls(page_limit=None, page_size=1000)
page_size_default == 1000
\* page_limit=None; the limits a caller supplies are non-negative
None == -1
\* download_metadata(n_threads=5)
n_threads_default == 5
\* a second writer thread on the same queue and file
two_json_writers == 1 + 1

\* download_metadata creates one ThreadJSONWriter
n_json_writers == 1
\* cache_all_image_data: for i in range(8)
n_cache_threads == 8
\* _generate_images(cached_image_width=300)
cached_image_width_default == 300

\* identifiers the remote account's entries may carry
Ids == {1, 2}

\* ----------------------------------------------------------------- state
VARIABLES
    pc,          \* position of the thread calling download_metadata
    err,         \* the exception that ended the run, or "none"
    probe,       \* the probe: "none", "total", "no_total", "error_status"
    n_threads,   \* download_metadata's n_threads argument
    urls,        \* self._media_urls: the page descriptors, by page number
    web_q,       \* web_request_queue
    json_q,      \* json_serialization_queue
    web_pool,    \* started ThreadMetadataRequest threads
    wpc,         \* each fetch worker's position
    wbatch,      \* the batch a fetch worker holds
    json_pool,   \* started ThreadJSONWriter threads
    jpc,         \* each aggregator's position
    jstore,      \* each aggregator's in-memory store
    jbatch,      \* the batch an aggregator holds
    inline_dict, \* media_dict, then cached_meta, of the single-page path
    file,        \* the metadata store file on disk
    file0,       \* the file as it was before the run
    fetched,     \* entries delivered by 200 page responses in this run
    http,        \* per page, the status codes its GET requests returned
    persisted,   \* pages whose batch has been merged and written to the file
    wrote,       \* threads that have written the store file
    run,         \* 1 in a first download_metadata run, 2 in a repeated one
    cookie,      \* the session's 'vs' cookie: "absent" or its value
    grab,        \* what _grab_token finds on the token page in this run
    resolutions, \* where each call of _grab_token was made from, in order
    p_in,        \* planner specification: the inputs
    p_out,       \* planner specification: the result
    cpc,         \* position of the thread calling cache_all_image_data
    jobs,        \* the Images generated from the store, in enqueue order
    image_q,     \* image_queue
    cache_pool,  \* started ThreadCacheImageData threads
    kpc,         \* each cache worker's position
    kjob,        \* the Image a cache worker holds
    disk,        \* per cache path: "absent", "partial" or "complete"
    disk0,       \* the cache paths as they were before this run
    img_http,    \* per job, the status codes its GET requests returned
    picks,       \* per job, how many times it was taken from the queue
    acked,       \* jobs acknowledged to the queue in this run
    later_run,   \* TRUE in a cache run that follows an earlier one
    failed_before, \* jobs whose download failed in the run before this one
    docs,        \* Image specifications: the raw documents given to Image
    width_arg,   \* Image specifications: the cached_image_width argument
    built        \* Image specifications: the Images built, or <<>>

meta_vars == <<pc, err, probe, n_threads, urls, web_q, json_q, web_pool, wpc,
               wbatch, json_pool, jpc, jstore, jbatch, inline_dict, file,
               file0, fetched, http, persisted, wrote, run, cookie, grab,
               resolutions>>
plan_vars == <<p_in, p_out>>
cache_vars == <<cpc, jobs, image_q, cache_pool, kpc, kjob, disk, disk0,
                img_http, picks, acked, later_run, failed_before>>
image_vars == <<docs, width_arg, built>>
vars == <<meta_vars, plan_vars, cache_vars, image_vars>>

\* ------------------------------------------------------------ dictionaries
EmptyDict == <<>>

\* a merge in which an entry already stored is kept
dict_update_keep_old(old, new) ==
    [k \in DOMAIN old \cup DOMAIN new |->
        IF k \in DOMAIN old THEN old[k] ELSE new[k]]

\* dict.update: keys of new overwrite keys of old
dict_update(old, new) ==
    [k \in DOMAIN old \cup DOMAIN new |->
        IF k \in DOMAIN new THEN new[k] ELSE old[k]]

\* shared.list_of_dicts_to_dict(entries, promote_to_key='_id')
list_of_dicts_to_dict(entries) ==
    [k \in {entries[i]._id : i \in DOMAIN entries} |->
        LET last == CHOOSE i \in DOMAIN entries :
                        /\ entries[i]._id = k
                        /\ \A j \in DOMAIN entries :
                               entries[j]._id = k => j <= i
        IN entries[last]]

\* ------------------------------------------------------------------ files
AbsentFile == [kind |-> "absent", data |-> EmptyDict]
MalformedFile == [kind |-> "malformed", data |-> EmptyDict]
JsonFile(d) == [kind |-> "json", data |-> d]

\* osp.isfile(self.metadata_filepath)
isfile(f) == f.kind # "absent"

\* load_json(f) under `except ValueError`: a malformed file reads as {}
load_or_empty(f) == IF f.kind = "json" THEN f.data ELSE EmptyDict

\* dump_json(obj, f): the file holds the serialized store
dump_json(obj) == JsonFile(obj)

\* ----------------------------------------------------------------- queues
\* Queue(): the items and the count of unfinished tasks
NewQueue == [items |-> <<>>, unfinished |-> 0]
put(q, x) == [items |-> Append(q.items, x), unfinished |-> q.unfinished + 1]
get(q) == [items |-> Tail(q.items), unfinished |-> q.unfinished]
task_done(q) == [items |-> q.items, unfinished |-> q.unfinished - 1]
\* Queue.join() returns when every item put has been acknowledged
join(q) == q.unfinished = 0

RECURSIVE put_all(_, _)
put_all(q, xs) == IF xs = <<>> THEN q ELSE put_all(put(q, Head(xs)), Tail(xs))

\* -------------------------------------------------------------- responses
Response(status, body) == [status_code |-> status, json |-> body]

\* a response with a failing status
FailedResponse == Response(404, EmptyDict)

\* Grid._grab_json
_grab_json(r) == IF r.status_code = codes_all_good THEN r.json ELSE EmptyDict

\* the entry page p delivers for identifier i
Entry(i, p) == [_id |-> i, rev |-> p]

RECURSIVE SetToSeq(_)
SetToSeq(S) ==
    IF S = {} THEN <<>>
    ELSE LET m == CHOOSE x \in S : \A y \in S : x <= y
         IN <<m>> \o SetToSeq(S \ {m})

PageBody(p, S) ==
    LET ids == SetToSeq(S)
    IN [total |-> Len(ids), media |-> [i \in DOMAIN ids |-> Entry(ids[i], p)]]

\* what the remote may answer to the GET of page p
PageResponses(p) ==
    {FailedResponse}
        \cup {Response(codes_all_good, PageBody(p, S)) : S \in SUBSET Ids}

\* totals the probe may report: page boundaries and one past them
Totals ==
    {k * page_size_default : k \in 0..MaxPages}
        \cup {k * page_size_default + 1 : k \in 0..(MaxPages - 1)}

\* what the remote may answer to the probe (page 1, size 1)
ProbeResponses ==
    {FailedResponse, Response(codes_all_good, [media |-> <<>>])}
        \cup {Response(codes_all_good, [total |-> t, media |-> <<>>]) : t \in Totals}

\* ---------------------------------------------------------------- planner
\* Python truth value of page_limit (line 235: `if page_limit`)
truthy(x) == x # None /\ x # 0

min(a, b) == IF a <= b THEN a ELSE b

\* int(math.ceil(total / float(page_size))), exact for the totals modelled
page_limit_max(total, page_size) == (total + page_size - 1) \div page_size

\* n_pages of _fetch_media_urls
n_pages(total, page_limit, page_size) ==
    IF truthy(page_limit)
        THEN min(page_limit, page_limit_max(total, page_size))
        ELSE page_limit_max(total, page_size)

\* the urls built by the loop of _fetch_media_urls, each named by its page
build_urls(total, page_limit, page_size) ==
    [i \in 1..n_pages(total, page_limit, page_size) |-> i]

\* media_meta.get('total', 1): a missing total read as one item
mm_remaining_count_default(media_meta) ==
    [raised |-> FALSE,
     total |-> IF "total" \in DOMAIN media_meta THEN media_meta.total ELSE 1]

\* mm_remaining_count = media_meta['total']: a KeyError when the key is absent
mm_remaining_count(media_meta) ==
    IF "total" \in DOMAIN media_meta
        THEN [raised |-> FALSE, total |-> media_meta.total]
        ELSE [raised |-> TRUE, total |-> 0]

\* _fetch_media_urls on the probe's response: the urls, or the error raised
_fetch_media_urls(r, page_limit, page_size) ==
    LET mm == mm_remaining_count(_grab_json(r))
    IN IF mm.raised
          THEN [raised |-> "KeyError", urls |-> <<>>]
          ELSE [raised |-> "none",
                urls |-> build_urls(mm.total, page_limit, page_size)]

\* ------------------------------------------------------------ JSON values
\* a value of a raw document: null, a string (its characters), an integer or
\* a sub-object (a mapping of keys to values)
JNull == [t |-> "null"]
JStr(s) == [t |-> "str", v |-> s]
JInt(n) == [t |-> "int", v |-> n]
JDict(d) == [t |-> "dict", v |-> d]

\* details.get(k, None)
dict_get(d, k) == IF k \in DOMAIN d THEN d[k] ELSE JNull

\* the Python truth value of a value
truthy_value(x) ==
    CASE x.t = "null" -> FALSE
      [] x.t = "int" -> x.v # 0
      [] x.t = "str" -> x.v # <<>>
      [] x.t = "dict" -> DOMAIN x.v # {}

Digit(d) == <<"0", "1", "2", "3", "4", "5", "6", "7", "8", "9">>[d + 1]

\* str(n) of a natural number: its decimal digits
RECURSIVE str_int(_)
str_int(n) ==
    IF n < 10 THEN <<Digit(n)>>
    ELSE str_int(n \div 10) \o <<Digit(n % 10)>>

\* what '{}'.format(x) writes for a value
format_value(x) ==
    CASE x.t = "null" -> <<"N", "o", "n", "e">>
      [] x.t = "str" -> x.v
      [] x.t = "int" -> str_int(x.v)

\* ------------------------------------------------------------------ Image
\* the default subdomain of a Grid (line 145)
Slowed == <<"s", "l", "o", "w", "e", "d">>

top_level_attributes ==
    {"upload_date", "is_featured", "height", "width", "description", "tags",
     "permalink", "responsive_url", "_id", "is_video", "grid_name",
     "perma_subdomain", "site_id"}

\* flattened name -> (container key, nested key)
supplementary_attributes_to_flatten ==
    [iso |-> <<"image_meta", "ios">>,
     model |-> <<"image_meta", "model">>,
     make |-> <<"image_meta", "make">>,
     preset |-> <<"preset", "short_name">>,
     preset_bg_color |-> <<"preset", "color">>]

\* lines 90-96 for one flattened name: `second_lvl_key in first_level_dict`
\* raises TypeError when the container's value is null or a number
flatten_one(raw, first_lvl_key, second_lvl_key) ==
    IF first_lvl_key \in DOMAIN raw
        THEN LET first_level_dict == raw[first_lvl_key]
             IN IF first_level_dict.t \in {"null", "int"}
                   THEN [raised |-> TRUE, value |-> JNull]
                   ELSE IF second_lvl_key \in DOMAIN first_level_dict.v
                           THEN [raised |-> FALSE,
                                 value |-> first_level_dict.v[second_lvl_key]]
                           ELSE [raised |-> FALSE, value |-> JNull]
        ELSE [raised |-> FALSE, value |-> JNull]

\* Image._flatten_supplementary_attributes (lines 87-97)
_flatten_supplementary_attributes(raw) ==
    LET a == supplementary_attributes_to_flatten
        one(name) == flatten_one(raw, a[name][1], a[name][2])
    IN [raised |-> \E name \in DOMAIN a : one(name).raised,
        flattened |-> [name \in DOMAIN a |-> one(name).value]]

\* a cache path that leaves the identifier out
local_filename_no_id(perma_subdomain, id, width) ==
    <<"i", "m", "a", "g", "e", "s", "/">> \o format_value(perma_subdomain)
        \o <<"/">> \o <<"-">> \o format_value(width)
        \o <<".", "j", "p", "g">>

\* 'images/{}/{}-{}.jpg'.format(perma_subdomain, _id, cached_image_width)
\* (lines 77-79)
local_filename(perma_subdomain, id, width) ==
    <<"i", "m", "a", "g", "e", "s", "/">> \o format_value(perma_subdomain)
        \o <<"/">> \o format_value(id) \o <<"-">> \o format_value(width)
        \o <<".", "j", "p", "g">>

\* 'http://{}?w={}'.format(responsive_url, cached_image_width) (lines 74-76)
link(responsive_url, width) ==
    <<"h", "t", "t", "p", ":", "/", "/">> \o format_value(responsive_url)
        \o <<"?", "w", "=">> \o format_value(width)

\* a cached width that is always the document's own
cached_image_width_of_document(cached_image_width, width) == width

\* cached_image_width if cached_image_width else self.width (lines 69-70)
cached_image_width_of(cached_image_width, width) ==
    IF truthy_value(cached_image_width) THEN cached_image_width ELSE width

\* Image(details, session, cached_image_width) (lines 48-79): the object's
\* fields, or the exception its construction raises
Image(raw, cached_image_width) ==
    LET top == [k \in top_level_attributes |-> dict_get(raw, k)]
        flat == _flatten_supplementary_attributes(raw)
    IN IF flat.raised
          THEN [raised |-> "TypeError"]
          ELSE LET f == flat.flattened
                   camera == JStr(format_value(f.make) \o <<" ">>
                                    \o format_value(f.model))
                   details == top @@ f @@ [camera |-> camera]
                   w == cached_image_width_of(cached_image_width,
                                              details.width)
               IN [raised |-> "none",
                   details |-> details,
                   cached_image_width |-> w,
                   link |-> link(details.responsive_url, w),
                   local_filename |->
                       local_filename(details.perma_subdomain, details._id, w)]

\* ------------------------------------------------------------------ Init
OldEntries(S) == [i \in S |-> Entry(i, 0)]

\* the store file a run may find: none, a malformed one, or the store an
\* earlier run left (entries of revision 0)
InitialFiles ==
    {AbsentFile, MalformedFile} \cup {JsonFile(OldEntries(S)) : S \in SUBSET Ids}

\* values of n_threads a caller passes: a single worker, or the default
NThreadsChoices == {1, n_threads_default}

Caller == <<"caller", 0>>
JsonWriter(k) == <<"writer", k>>

PlanIdle ==
    /\ p_in = [total |-> 0, page_size |-> 1, page_limit |-> None]
    /\ p_out = [raised |-> "unset", urls |-> <<>>]

CacheIdle ==
    /\ cpc = "idle"
    /\ jobs = <<>>
    /\ image_q = NewQueue
    /\ cache_pool = {}
    /\ kpc = <<>>
    /\ kjob = <<>>
    /\ disk = <<>>
    /\ disk0 = <<>>
    /\ img_http = <<>>
    /\ picks = <<>>
    /\ acked = {}
    /\ later_run = FALSE
    /\ failed_before = {}

ImageIdle ==
    /\ docs = <<>>
    /\ width_arg = JNull
    /\ built = <<>>

\* ----------------------------------------------------------- access token
\* a token as the property reads it; None is the text "None"
TokenNone == "None"
SomeToken == "5f3a"

\* the Python truth value of a token (line 271: `if not token`)
truthy_token(t) == t # TokenNone /\ t # ""

\* self.s.cookies.get('vs', domain='vsco.co', default=None)
cookies_get(c) == IF c = "absent" THEN TokenNone ELSE c

\* self.s.cookies.set('vs', token, domain='vsco.co'): a value of None removes
\* the cookie
cookies_set(t) == IF t = TokenNone THEN "absent" ELSE t

\* what the token page may give _grab_token (lines 201-213): a token, an
\* empty token, a url the pattern does not match (None), or no og:image
\* element (IndexError at line 204)
GrabOutcomes == {SomeToken, "", TokenNone, "IndexError"}

\* the access_token property (lines 268-275) read with cookie c while the
\* token page gives g: the value returned, the cookie afterwards, and
\* whether _grab_token was called
access_token(c, g) ==
    LET token == cookies_get(c)
    IN IF truthy_token(token)
          THEN [raised |-> FALSE, token |-> token, cookie |-> c,
                resolved |-> FALSE]
          ELSE IF g = "IndexError"
                  THEN [raised |-> TRUE, token |-> TokenNone, cookie |-> c,
                        resolved |-> TRUE]
                  ELSE [raised |-> FALSE, token |-> g,
                        cookie |-> cookies_set(g), resolved |-> TRUE]

\* the places of the resolutions that k reads of access_token make from
\* place tag, starting with cookie c
RECURSIVE token_reads(_, _, _, _)
token_reads(k, c, g, tag) ==
    IF k = 0 THEN <<>>
    ELSE LET a == access_token(c, g)
         IN (IF a.resolved THEN <<tag>> ELSE <<>>)
                \o token_reads(k - 1, a.cookie, g, tag)

\* Grid(...) constructed with a token resolved and stored (lines 149-155)
Constructed ==
    /\ grab = SomeToken
    /\ cookie = SomeToken
    /\ resolutions = <<"construct">>

\* the state of download_metadata's variables before its first step
MetaFresh ==
    /\ err = "none"
    /\ probe = "none"
    /\ urls = <<>>
    /\ web_q = NewQueue
    /\ json_q = NewQueue
    /\ web_pool = {}
    /\ wpc = <<>>
    /\ wbatch = <<>>
    /\ json_pool = {}
    /\ jpc = <<>>
    /\ jstore = <<>>
    /\ jbatch = <<>>
    /\ inline_dict = EmptyDict
    /\ file = file0
    /\ fetched = {}
    /\ http = [p \in 1..MaxPages |-> <<>>]
    /\ persisted = {}
    /\ wrote = {}
    /\ run = 1

\* download_metadata entered: both queues created (lines 326-327)
MetaStart ==
    /\ pc = "start"
    /\ MetaFresh

Init ==
    /\ n_threads \in NThreadsChoices
    /\ file0 \in InitialFiles
    /\ MetaStart
    /\ Constructed
    /\ PlanIdle
    /\ CacheIdle
    /\ ImageIdle

\* ------------------------------------------------- download_metadata: caller
\* an exception propagates out of download_metadata
Raise(e) ==
    /\ pc' = "raised"
    /\ err' = e

\* urls = self.paginated_media_urls: the probe and the plan (lines 329,
\* 281-287, 228-240)
Probe ==
    /\ pc = "start"
    /\ \E r \in ProbeResponses :
        LET plan == _fetch_media_urls(r, None, page_size_default)
            \* access_token is read for the probe url (line 228) and for
            \* every page url (line 238)
            reads == 1 + Len(plan.urls)
        IN /\ probe' = IF r.status_code # codes_all_good THEN "error_status"
                       ELSE IF "total" \in DOMAIN r.json THEN "total"
                       ELSE "no_total"
           /\ resolutions' =
                resolutions \o token_reads(reads, cookie, grab, "plan")
           /\ cookie' = access_token(cookie, grab).cookie
           /\ IF plan.raised = "none"
                 THEN /\ urls' = plan.urls
                      /\ pc' = "planned"
                      /\ err' = err
                 ELSE /\ Raise(plan.raised)
                      /\ urls' = urls
    /\ UNCHANGED <<n_threads, web_q, json_q, web_pool, wpc, wbatch, json_pool, jpc,
                   jstore, jbatch, inline_dict, file, file0, fetched, http, persisted,
                   wrote, run, grab, p_in, p_out, cpc, jobs, image_q, cache_pool, kpc,
                   kjob, disk, disk0, img_http, picks, acked, later_run, failed_before,
                   docs, width_arg, built>>

\* `if len(urls) > 1` (line 330)
uses_pool(us) == Len(us) > 1

\* a pool of n_threads workers whatever the number of urls
pool_size_n_threads(us, n) == n

\* pool_size = min(len(urls), n_threads) (line 340)
pool_size(us, n) == min(Len(us), n)

\* ThreadJSONWriter(queue, filepath): an existing store file is loaded first,
\* a malformed one as the empty store
new_json_writer_store(f) == IF isfile(f) THEN load_or_empty(f) ELSE EmptyDict

\* lines 331-350: enqueue every url, create and start the pool and the writer
StartPool ==
    /\ pc = "planned"
    /\ uses_pool(urls)
    /\ web_q' = put_all(web_q, urls)
    /\ web_pool' = 1..pool_size(urls, n_threads)
    /\ wpc' = [w \in web_pool' |-> "idle"]
    /\ wbatch' = [w \in web_pool' |-> <<>>]
    /\ json_pool' = 1..n_json_writers
    /\ jpc' = [k \in json_pool' |-> "idle"]
    /\ jstore' = [k \in json_pool' |-> new_json_writer_store(file)]
    /\ jbatch' = [k \in json_pool' |-> <<>>]
    /\ pc' = "join_web"
    /\ UNCHANGED <<err, probe, n_threads, urls, json_q, inline_dict, file, file0,
                   fetched, http, persisted, wrote, run, cookie, grab, resolutions, p_in,
                   p_out, cpc, jobs, image_q, cache_pool, kpc, kjob, disk, disk0,
                   img_http, picks, acked, later_run, failed_before, docs, width_arg,
                   built>>

\* web_request_queue.join() (line 352)
web_joined == join(web_q)

JoinWeb ==
    /\ pc = "join_web"
    /\ web_joined
    /\ pc' = "join_json"
    /\ UNCHANGED <<err, probe, n_threads, urls, web_q, json_q, web_pool, wpc, wbatch,
                   json_pool, jpc, jstore, jbatch, inline_dict, file, file0, fetched,
                   http, persisted, wrote, run, cookie, grab, resolutions, p_in, p_out,
                   cpc, jobs, image_q, cache_pool, kpc, kjob, disk, disk0, img_http,
                   picks, acked, later_run, failed_before, docs, width_arg, built>>

\* a return that does not wait for the output queue
json_join_skipped == TRUE

\* json_serialization_queue.join() (line 353)
json_joined == join(json_q)

JoinJson ==
    /\ pc = "join_json"
    /\ json_joined
    /\ pc' = "returned"
    /\ UNCHANGED <<err, probe, n_threads, urls, web_q, json_q, web_pool, wpc, wbatch,
                   json_pool, jpc, jstore, jbatch, inline_dict, file, file0, fetched,
                   http, persisted, wrote, run, cookie, grab, resolutions, p_in, p_out,
                   cpc, jobs, image_q, cache_pool, kpc, kjob, disk, disk0, img_http,
                   picks, acked, later_run, failed_before, docs, width_arg, built>>

\* the entries a response delivers: those of a 200 body
Delivered(r) ==
    IF r.status_code = codes_all_good
        THEN {r.json.media[i] : i \in DOMAIN r.json.media}
        ELSE {}

\* json_response['media'] (line 356): a KeyError when the key is absent
media_entries(json_response) ==
    IF "media" \in DOMAIN json_response
        THEN [raised |-> FALSE, media |-> json_response.media]
        ELSE [raised |-> TRUE, media |-> <<>>]

\* the response page p got when it was fetched before, rebuilt from the
\* status and the entries recorded for it
RecordedResponse(p) ==
    IF http[p][1] = codes_all_good
        THEN Response(codes_all_good,
                      PageBody(p, {e._id : e \in {x \in fetched : x.rev = p}}))
        ELSE FailedResponse

\* what the remote answers to the GET of page p: any response to a first
\* GET, the same response again to a repeated GET (the remote is unchanged)
RemoteResponses(p) ==
    IF http[p] = <<>> THEN PageResponses(p) ELSE {RecordedResponse(p)}

\* lines 355-359: the single fetch on the caller's thread
InlineFetch ==
    /\ pc = "planned"
    /\ ~uses_pool(urls)
    /\ IF urls = <<>>
          THEN /\ Raise("IndexError")
               /\ UNCHANGED <<inline_dict, fetched, http>>
          ELSE \E r \in RemoteResponses(urls[1]) :
                LET entries == media_entries(_grab_json(r))
                IN /\ http' = [http EXCEPT ![urls[1]] = Append(@, r.status_code)]
                   /\ IF entries.raised
                         THEN /\ Raise("KeyError")
                              /\ UNCHANGED <<inline_dict, fetched>>
                         ELSE /\ inline_dict' =
                                    list_of_dicts_to_dict(entries.media)
                              /\ fetched' = fetched \cup Delivered(r)
                              /\ pc' = "inline_open"
                              /\ err' = err
    /\ UNCHANGED <<probe, n_threads, urls, web_q, json_q, web_pool, wpc, wbatch,
                   json_pool, jpc, jstore, jbatch, file, file0, persisted, wrote, run,
                   cookie, grab, resolutions, p_in, p_out, cpc, jobs, image_q,
                   cache_pool, kpc, kjob, disk, disk0, img_http, picks, acked, later_run,
                   failed_before, docs, width_arg, built>>

\* open(path, 'r+w' if exists else 'w'): mode 'w' creates an empty file
open_file(f) == IF isfile(f) THEN f ELSE MalformedFile

\* lines 364-365 without the except clause: the ValueError of a malformed
\* file leaves the call
cached_meta_of_uncaught(f) ==
    [raised |-> f.kind = "malformed",
     data |-> IF isfile(f) THEN load_or_empty(f) ELSE EmptyDict]

\* lines 364-367: cached_meta = load_json(f) if exists else {}; the
\* ValueError of a malformed file is caught and reads as {}
cached_meta_of(f) ==
    [raised |-> FALSE,
     data |-> IF isfile(f) THEN load_or_empty(f) ELSE EmptyDict]

\* lines 361-369: open the store file, load it, merge the page in
InlineOpen ==
    /\ pc = "inline_open"
    /\ file' = open_file(file)
    /\ LET cached_meta == cached_meta_of(file)
       IN IF cached_meta.raised
             THEN /\ Raise("ValueError")
                  /\ UNCHANGED inline_dict
             ELSE /\ inline_dict' = dict_update(cached_meta.data, inline_dict)
                  /\ pc' = "inline_dump"
                  /\ err' = err
    /\ UNCHANGED <<probe, n_threads, urls, web_q, json_q, web_pool, wpc, wbatch,
                   json_pool, jpc, jstore, jbatch, file0, fetched, http, persisted,
                   wrote, run, cookie, grab, resolutions, p_in, p_out, cpc, jobs,
                   image_q, cache_pool, kpc, kjob, disk, disk0, img_http, picks, acked,
                   later_run, failed_before, docs, width_arg, built>>

\* lines 370-371: dump_json(cached_meta, f), close, return
InlineDump ==
    /\ pc = "inline_dump"
    /\ file' = dump_json(inline_dict)
    /\ wrote' = wrote \cup {Caller}
    /\ persisted' = persisted \cup {urls[1]}
    /\ pc' = "returned"
    /\ UNCHANGED <<err, probe, n_threads, urls, web_q, json_q, web_pool, wpc, wbatch,
                   json_pool, jpc, jstore, jbatch, inline_dict, file0, fetched, http,
                   run, cookie, grab, resolutions, p_in, p_out, cpc, jobs, image_q,
                   cache_pool, kpc, kjob, disk, disk0, img_http, picks, acked, later_run,
                   failed_before, docs, width_arg, built>>

\* ------------------------------------------------ ThreadMetadataRequest.run
\* the batch of a page fetch, tagged with its page: a failed page reads as
\* no entries
batch_of(p, r) ==
    LET json_response == _grab_json(r)
    IN [page |-> p,
        media |-> IF "media" \in DOMAIN json_response
                     THEN json_response.media ELSE <<>>]

\* take a page descriptor and GET it
WorkerFetch(w) ==
    /\ w \in web_pool
    /\ wpc[w] = "idle"
    /\ web_q.items # <<>>
    /\ LET p == Head(web_q.items)
       IN \E r \in RemoteResponses(p) :
            /\ wbatch' = [wbatch EXCEPT ![w] = batch_of(p, r)]
            /\ fetched' = fetched \cup Delivered(r)
            /\ http' = [http EXCEPT ![p] = Append(@, r.status_code)]
    /\ web_q' = get(web_q)
    /\ wpc' = [wpc EXCEPT ![w] = "fetched"]
    /\ UNCHANGED <<pc, err, probe, n_threads, urls, json_q, web_pool, json_pool, jpc,
                   jstore, jbatch, inline_dict, file, file0, persisted, wrote, run,
                   cookie, grab, resolutions, p_in, p_out, cpc, jobs, image_q,
                   cache_pool, kpc, kjob, disk, disk0, img_http, picks, acked, later_run,
                   failed_before, docs, width_arg, built>>

\* push the tagged batch to the output queue
WorkerPut(w) ==
    /\ w \in web_pool
    /\ wpc[w] = "fetched"
    /\ json_q' = put(json_q, wbatch[w])
    /\ wpc' = [wpc EXCEPT ![w] = "put"]
    /\ UNCHANGED <<pc, err, probe, n_threads, urls, web_q, web_pool, wbatch, json_pool,
                   jpc, jstore, jbatch, inline_dict, file, file0, fetched, http,
                   persisted, wrote, run, cookie, grab, resolutions, p_in, p_out, cpc,
                   jobs, image_q, cache_pool, kpc, kjob, disk, disk0, img_http, picks,
                   acked, later_run, failed_before, docs, width_arg, built>>

\* acknowledge the input item
WorkerAck(w) ==
    /\ w \in web_pool
    /\ wpc[w] = "put"
    /\ web_q' = task_done(web_q)
    /\ wpc' = [wpc EXCEPT ![w] = "idle"]
    /\ wbatch' = [wbatch EXCEPT ![w] = <<>>]
    /\ UNCHANGED <<pc, err, probe, n_threads, urls, json_q, web_pool, json_pool, jpc,
                   jstore, jbatch, inline_dict, file, file0, fetched, http, persisted,
                   wrote, run, cookie, grab, resolutions, p_in, p_out, cpc, jobs,
                   image_q, cache_pool, kpc, kjob, disk, disk0, img_http, picks, acked,
                   later_run, failed_before, docs, width_arg, built>>

\* ------------------------------------------------------ ThreadJSONWriter.run
\* take a batch from the output queue
WriterGet(k) ==
    /\ k \in json_pool
    /\ jpc[k] = "idle"
    /\ json_q.items # <<>>
    /\ jbatch' = [jbatch EXCEPT ![k] = Head(json_q.items)]
    /\ json_q' = get(json_q)
    /\ jpc' = [jpc EXCEPT ![k] = "write"]
    /\ UNCHANGED <<pc, err, probe, n_threads, urls, web_q, web_pool, wpc, wbatch,
                   json_pool, jstore, inline_dict, file, file0, fetched, http, persisted,
                   wrote, run, cookie, grab, resolutions, p_in, p_out, cpc, jobs,
                   image_q, cache_pool, kpc, kjob, disk, disk0, img_http, picks, acked,
                   later_run, failed_before, docs, width_arg, built>>

\* the batch's mapping merged into the aggregator's store
writer_merge(store, batch) ==
    dict_update(store, list_of_dicts_to_dict(batch.media))

\* build the batch's mapping, merge it into the in-memory store, persist the
\* entire store
WriterWrite(k) ==
    /\ k \in json_pool
    /\ jpc[k] = "write"
    /\ jstore' = [jstore EXCEPT ![k] = writer_merge(@, jbatch[k])]
    /\ file' = dump_json(jstore'[k])
    /\ wrote' = wrote \cup {JsonWriter(k)}
    /\ persisted' = persisted \cup {jbatch[k].page}
    /\ jpc' = [jpc EXCEPT ![k] = "ack"]
    /\ UNCHANGED <<pc, err, probe, n_threads, urls, web_q, json_q, web_pool, wpc, wbatch,
                   json_pool, jbatch, inline_dict, file0, fetched, http, run, cookie,
                   grab, resolutions, p_in, p_out, cpc, jobs, image_q, cache_pool, kpc,
                   kjob, disk, disk0, img_http, picks, acked, later_run, failed_before,
                   docs, width_arg, built>>

\* acknowledge the batch
WriterAck(k) ==
    /\ k \in json_pool
    /\ jpc[k] = "ack"
    /\ json_q' = task_done(json_q)
    /\ jpc' = [jpc EXCEPT ![k] = "idle"]
    /\ jbatch' = [jbatch EXCEPT ![k] = <<>>]
    /\ UNCHANGED <<pc, err, probe, n_threads, urls, web_q, web_pool, wpc, wbatch,
                   json_pool, jstore, inline_dict, file, file0, fetched, http, persisted,
                   wrote, run, cookie, grab, resolutions, p_in, p_out, cpc, jobs,
                   image_q, cache_pool, kpc, kjob, disk, disk0, img_http, picks, acked,
                   later_run, failed_before, docs, width_arg, built>>

\* thread identities the pools may hold
Workers == 1..MaxPages
Writers == 1..(n_json_writers + 1)

Next ==
    \/ Probe
    \/ StartPool
    \/ JoinWeb
    \/ JoinJson
    \/ InlineFetch
    \/ InlineOpen
    \/ InlineDump
    \/ \E w \in Workers : WorkerFetch(w)
    \/ \E w \in Workers : WorkerPut(w)
    \/ \E w \in Workers : WorkerAck(w)
    \/ \E k \in Writers : WriterGet(k)
    \/ \E k \in Writers : WriterWrite(k)
    \/ \E k \in Writers : WriterAck(k)

Spec == Init /\ [][Next]_vars

\* ------------------------------------------------------- a repeated run
\* download_metadata called again after it returned (line 416 of a second
\* invocation) against the unchanged remote: the probe answers as before, so
\* the page descriptors are the same; queues, pools and the aggregator's
\* store are new, and the file is the one the first run left
MetaRerun ==
    /\ pc = "returned"
    /\ run = 1
    /\ run' = 2
    /\ pc' = "planned"
    /\ file0' = file
    /\ web_q' = NewQueue
    /\ json_q' = NewQueue
    /\ web_pool' = {}
    /\ wpc' = <<>>
    /\ wbatch' = <<>>
    /\ json_pool' = {}
    /\ jpc' = <<>>
    /\ jstore' = <<>>
    /\ jbatch' = <<>>
    /\ inline_dict' = EmptyDict
    /\ persisted' = {}
    /\ wrote' = {}
    /\ UNCHANGED <<err, probe, n_threads, urls, file, fetched, http, cookie, grab,
                   resolutions, p_in, p_out, cpc, jobs, image_q, cache_pool, kpc, kjob,
                   disk, disk0, img_http, picks, acked, later_run, failed_before, docs,
                   width_arg, built>>

\* a first run over no store file or over a store an earlier run left
RerunFiles == {AbsentFile, JsonFile(OldEntries(Ids))}

InitRerun ==
    /\ n_threads \in NThreadsChoices
    /\ file0 \in RerunFiles
    /\ MetaStart
    /\ Constructed
    /\ PlanIdle
    /\ CacheIdle
    /\ ImageIdle

NextRerun ==
    \/ Next
    \/ MetaRerun

SpecRerun == InitRerun /\ [][NextRerun]_vars

\* ------------------------------------------------- construction of the Grid
\* Grid.__init__ (lines 149-155): a new session, whose cookie is set to the
\* value of the access_token property
Construct ==
    /\ pc = "new"
    /\ LET a == access_token(cookie, grab)
       IN /\ resolutions' =
                resolutions \o (IF a.resolved THEN <<"construct">> ELSE <<>>)
          /\ IF a.raised
                THEN /\ Raise("IndexError")
                     /\ cookie' = a.cookie
                ELSE /\ cookie' = cookies_set(a.token)
                     /\ pc' = "start"
                     /\ err' = err
    /\ UNCHANGED <<probe, n_threads, urls, web_q, json_q, web_pool, wpc, wbatch,
                   json_pool, jpc, jstore, jbatch, inline_dict, file, file0, fetched,
                   http, persisted, wrote, run, grab, p_in, p_out, cpc, jobs, image_q,
                   cache_pool, kpc, kjob, disk, disk0, img_http, picks, acked, later_run,
                   failed_before, docs, width_arg, built>>

InitToken ==
    /\ pc = "new"
    /\ n_threads = n_threads_default
    /\ file0 = AbsentFile
    /\ MetaFresh
    /\ cookie = "absent"
    /\ grab \in GrabOutcomes
    /\ resolutions = <<>>
    /\ PlanIdle
    /\ CacheIdle
    /\ ImageIdle

NextToken ==
    \/ Construct
    \/ Next

SpecToken == InitToken /\ [][NextToken]_vars

\* ------------------------------------------- _fetch_media_urls as a function
\* the probe's response for a total, or for a document without one
ProbeResponseOf(total) ==
    IF total = None
        THEN Response(codes_all_good, [media |-> <<>>])
        ELSE Response(codes_all_good, [total |-> total, media |-> <<>>])

PlannerInputs ==
    [total : (0..MaxTotal) \cup {None},
     page_size : 1..MaxPageSize,
     page_limit : (0..MaxLimit) \cup {None}]

InitPlanner ==
    /\ p_in \in PlannerInputs
    /\ p_out = [raised |-> "unset", urls |-> <<>>]
    /\ n_threads = n_threads_default
    /\ file0 = AbsentFile
    /\ MetaStart
    /\ Constructed
    /\ CacheIdle
    /\ ImageIdle

\* one call of _fetch_media_urls(page_limit, page_size) (lines 215-240)
PlanCall ==
    /\ p_out.raised = "unset"
    /\ p_out' = _fetch_media_urls(ProbeResponseOf(p_in.total), p_in.page_limit,
                                  p_in.page_size)
    /\ UNCHANGED <<pc, err, probe, n_threads, urls, web_q, json_q, web_pool, wpc, wbatch,
                   json_pool, jpc, jstore, jbatch, inline_dict, file, file0, fetched,
                   http, persisted, wrote, run, cookie, grab, resolutions, p_in, cpc,
                   jobs, image_q, cache_pool, kpc, kjob, disk, disk0, img_http, picks,
                   acked, later_run, failed_before, docs, width_arg, built>>

NextPlanner == PlanCall

SpecPlanner == InitPlanner /\ [][NextPlanner]_vars

\* ------------------------------------------------------ Image as a function
\* a document made of optional fields: each piece is one field or none
MaybeField(k, values) == {<<>>} \cup {(k :> v) : v \in values}

\* the value a document carries under a nested key
NestedValue(k) == JStr(<<k>>)

\* the values a container key may carry: null, or a sub-object holding any
\* of the keys
ContainerValues(keys) ==
    {JNull} \cup {JDict([k \in S |-> NestedValue(k)]) : S \in SUBSET keys}

Names == {<<"a">>, <<"b">>}
Widths == {cached_image_width_default, 2 * cached_image_width_default}

\* raw documents for the flattening: any of four top-level fields, and the
\* two containers absent, null or sub-objects
FlattenDocs ==
    {a @@ b @@ c @@ d @@ e @@ f :
        a \in MaybeField("_id", {JStr(<<"a">>)}),
        b \in MaybeField("perma_subdomain", {JStr(Slowed)}),
        c \in MaybeField("width", {JInt(cached_image_width_default)}),
        d \in MaybeField("description", {JStr(<<"x">>)}),
        e \in MaybeField("image_meta",
                         ContainerValues({"ios", "iso", "model", "make"})),
        f \in MaybeField("preset", ContainerValues({"short_name", "color"}))}

\* raw documents for the cache path: subdomain and identifier present, the
\* width, a description and a preset present or not
PathDocs ==
    {a @@ b @@ c @@ d @@ e :
        a \in {("_id" :> JStr(n)) : n \in Names},
        b \in {("perma_subdomain" :> JStr(n)) : n \in Names},
        c \in MaybeField("width", {JInt(w) : w \in Widths}),
        d \in MaybeField("description", {JStr(<<"x">>)}),
        e \in MaybeField("preset", {JDict([short_name |-> JStr(<<"p">>)])})}

\* the cached_image_width arguments: none, zero, or a width
WidthArgs == {JNull, JInt(0)} \cup {JInt(w) : w \in Widths}

ImageBase ==
    /\ n_threads = n_threads_default
    /\ file0 = AbsentFile
    /\ MetaStart
    /\ Constructed
    /\ PlanIdle
    /\ CacheIdle
    /\ built = <<>>

InitFlatten ==
    /\ ImageBase
    /\ docs \in {<<d>> : d \in FlattenDocs}
    /\ width_arg \in {JNull, JInt(cached_image_width_default)}

InitImage ==
    /\ ImageBase
    /\ docs \in {<<d1, d2>> : d1 \in PathDocs, d2 \in PathDocs}
    /\ width_arg \in WidthArgs

\* Image(details, session, cached_image_width) called on each document
BuildImages ==
    /\ built = <<>>
    /\ built' = [i \in DOMAIN docs |-> Image(docs[i], width_arg)]
    /\ UNCHANGED <<pc, err, probe, n_threads, urls, web_q, json_q, web_pool, wpc, wbatch,
                   json_pool, jpc, jstore, jbatch, inline_dict, file, file0, fetched,
                   http, persisted, wrote, run, cookie, grab, resolutions, p_in, p_out,
                   cpc, jobs, image_q, cache_pool, kpc, kjob, disk, disk0, img_http,
                   picks, acked, later_run, failed_before, docs, width_arg>>

NextImage == BuildImages

SpecFlatten == InitFlatten /\ [][NextImage]_vars

SpecImage == InitImage /\ [][NextImage]_vars

\* ------------------------------------------------ cache_all_image_data
\* _generate_images(): one Image per entry of self.metadata
_generate_images(store) ==
    LET ids == SetToSeq(DOMAIN store)
    IN [n \in DOMAIN ids |->
            Image(store[ids[n]], JInt(cached_image_width_default))]

\* a cache file an open(..., 'wb') has created before the status is known
cache_image_file_open_first(state, status) ==
    [raised |-> FALSE,
     file |-> IF status = codes_all_good THEN "complete" ELSE "partial"]

\* a download that raises on a failing status
cache_image_file_raising(state, status) ==
    [raised |-> status # codes_all_good,
     file |-> IF status = codes_all_good THEN "complete" ELSE state]

\* Image.cache_image_file (lines 131-138): the file at local_filename after a
\* GET that returned `status`; nothing is opened unless the status is 200
cache_image_file(state, status) ==
    [raised |-> FALSE,
     file |-> IF status = codes_all_good THEN "complete" ELSE state]

\* a worker that downloads without looking at the cache path
needs_download_always(state) == TRUE

\* `if not osp.isfile(self.local_filename)` (line 109)
needs_download(state) == state = "absent"

\* the entries of the store an image cache run works from
CacheEntry(i) == [_id |-> JStr(str_int(i)), perma_subdomain |-> JStr(Slowed)]
CacheStores == {[i \in 1..n |-> CacheEntry(i)] : n \in 0..MaxImages}
PathsOf(store) ==
    {Image(store[i], JInt(cached_image_width_default)).local_filename :
        i \in DOMAIN store}

\* download_metadata has left a store; cache_all_image_data is about to be called
InitCache ==
    /\ n_threads = n_threads_default
    /\ file0 \in {JsonFile(s) : s \in CacheStores}
    /\ MetaStart
    /\ Constructed
    /\ PlanIdle
    /\ ImageIdle
    /\ cpc = "idle"
    /\ jobs = <<>>
    /\ image_q = NewQueue
    /\ cache_pool = {}
    /\ kpc = <<>>
    /\ kjob = <<>>
    /\ disk0 \in [PathsOf(file0.data) -> {"absent", "complete"}]
    /\ disk = disk0
    /\ img_http = <<>>
    /\ picks = <<>>
    /\ acked = {}
    /\ later_run = FALSE
    /\ failed_before = {}

\* every Image put on the queue twice
enqueue_images_twice(q, images) ==
    put_all(put_all(q, [n \in DOMAIN images |-> n]), [n \in DOMAIN images |-> n])

\* lines 382-383: each generated Image is put on the queue once
enqueue_images(q, images) == put_all(q, [n \in DOMAIN images |-> n])

\* lines 381-389: a new queue, every Image enqueued, eight workers started
CacheStart ==
    /\ cpc = "idle"
    /\ jobs' = _generate_images(load_or_empty(file))
    /\ image_q' = enqueue_images(NewQueue, jobs')
    /\ cache_pool' = 1..n_cache_threads
    /\ kpc' = [k \in cache_pool' |-> "idle"]
    /\ kjob' = [k \in cache_pool' |-> 0]
    /\ img_http' = [n \in DOMAIN jobs' |-> <<>>]
    /\ picks' = [n \in DOMAIN jobs' |-> 0]
    /\ acked' = {}
    /\ cpc' = "join"
    /\ UNCHANGED <<pc, err, probe, n_threads, urls, web_q, json_q, web_pool, wpc, wbatch,
                   json_pool, jpc, jstore, jbatch, inline_dict, file, file0, fetched,
                   http, persisted, wrote, run, cookie, grab, resolutions, p_in, p_out,
                   disk, disk0, later_run, failed_before, docs, width_arg, built>>

\* image_queue.join() (line 391)
cache_joined == join(image_q)

CacheJoin ==
    /\ cpc = "join"
    /\ cache_joined
    /\ cpc' = "returned"
    /\ UNCHANGED <<pc, err, probe, n_threads, urls, web_q, json_q, web_pool, wpc, wbatch,
                   json_pool, jpc, jstore, jbatch, inline_dict, file, file0, fetched,
                   http, persisted, wrote, run, cookie, grab, resolutions, p_in, p_out,
                   jobs, image_q, cache_pool, kpc, kjob, disk, disk0, img_http, picks,
                   acked, later_run, failed_before, docs, width_arg, built>>

\* the jobs of this run whose last download returned a failing status
FailedNow ==
    {n \in DOMAIN jobs :
        img_http[n] # <<>> /\ img_http[n][Len(img_http[n])] # codes_all_good}

\* cache_all_image_data is called again over the same store: a new queue and
\* new workers (those of the run before stay blocked on their empty queue)
CacheRerun ==
    /\ cpc = "returned"
    /\ cpc' = "idle"
    /\ later_run' = TRUE
    /\ failed_before' = FailedNow
    /\ disk0' = disk
    /\ jobs' = <<>>
    /\ image_q' = NewQueue
    /\ cache_pool' = {}
    /\ kpc' = <<>>
    /\ kjob' = <<>>
    /\ img_http' = <<>>
    /\ picks' = <<>>
    /\ acked' = {}
    /\ UNCHANGED <<pc, err, probe, n_threads, urls, web_q, json_q, web_pool, wpc, wbatch,
                   json_pool, jpc, jstore, jbatch, inline_dict, file, file0, fetched,
                   http, persisted, wrote, run, cookie, grab, resolutions, p_in, p_out,
                   disk, docs, width_arg, built>>

\* ------------------------------------------------- ThreadCacheImageData.run
\* take an Image from the queue and look for its cache file
CacheTake(k) ==
    /\ k \in cache_pool
    /\ kpc[k] = "idle"
    /\ image_q.items # <<>>
    /\ LET n == Head(image_q.items)
       IN /\ kjob' = [kjob EXCEPT ![k] = n]
          /\ picks' = [picks EXCEPT ![n] = @ + 1]
          /\ kpc' = [kpc EXCEPT ![k] =
                        IF needs_download(disk[jobs[n].local_filename])
                            THEN "download" ELSE "ack"]
    /\ image_q' = get(image_q)
    /\ UNCHANGED <<pc, err, probe, n_threads, urls, web_q, json_q, web_pool, wpc, wbatch,
                   json_pool, jpc, jstore, jbatch, inline_dict, file, file0, fetched,
                   http, persisted, wrote, run, cookie, grab, resolutions, p_in, p_out,
                   cpc, jobs, cache_pool, disk, disk0, img_http, acked, later_run,
                   failed_before, docs, width_arg, built>>

\* cache_image_file(): the streamed GET and the write of its body
CacheDownload(k) ==
    /\ k \in cache_pool
    /\ kpc[k] = "download"
    /\ LET path == jobs[kjob[k]].local_filename
       IN \E status \in {codes_all_good, FailedResponse.status_code} :
            LET done == cache_image_file(disk[path], status)
            IN /\ img_http' = [img_http EXCEPT ![kjob[k]] = Append(@, status)]
               /\ disk' = [disk EXCEPT ![path] = done.file]
               /\ kpc' = [kpc EXCEPT ![k] = IF done.raised THEN "dead" ELSE "ack"]
    /\ UNCHANGED <<pc, err, probe, n_threads, urls, web_q, json_q, web_pool, wpc, wbatch,
                   json_pool, jpc, jstore, jbatch, inline_dict, file, file0, fetched,
                   http, persisted, wrote, run, cookie, grab, resolutions, p_in, p_out,
                   cpc, jobs, image_q, cache_pool, kjob, disk0, picks, acked, later_run,
                   failed_before, docs, width_arg, built>>

\* acknowledge the job
CacheAck(k) ==
    /\ k \in cache_pool
    /\ kpc[k] = "ack"
    /\ image_q' = task_done(image_q)
    /\ acked' = acked \cup {kjob[k]}
    /\ kpc' = [kpc EXCEPT ![k] = "idle"]
    /\ kjob' = [kjob EXCEPT ![k] = 0]
    /\ UNCHANGED <<pc, err, probe, n_threads, urls, web_q, json_q, web_pool, wpc, wbatch,
                   json_pool, jpc, jstore, jbatch, inline_dict, file, file0, fetched,
                   http, persisted, wrote, run, cookie, grab, resolutions, p_in, p_out,
                   cpc, jobs, cache_pool, disk, disk0, img_http, picks, later_run,
                   failed_before, docs, width_arg, built>>

CacheWorkers == 1..n_cache_threads

CacheWorker(k) == CacheTake(k) \/ CacheDownload(k) \/ CacheAck(k)

NextCache ==
    \/ CacheStart
    \/ CacheJoin
    \/ CacheRerun
    \/ \E k \in CacheWorkers : CacheTake(k)
    \/ \E k \in CacheWorkers : CacheDownload(k)
    \/ \E k \in CacheWorkers : CacheAck(k)

SpecCache == InitCache /\ [][NextCache]_vars

\* the threads are scheduled fairly and the caller does call and wait; a
\* further call of cache_all_image_data is the caller's choice
SpecCacheFair ==
    /\ SpecCache
    /\ WF_vars(CacheStart)
    /\ WF_vars(CacheJoin)
    /\ \A k \in CacheWorkers : WF_vars(CacheWorker(k))

\* ------------------------------------- stores of any subdomains and identifiers
\* identifiers and subdomains a store may carry, some with the path separator
IdNames == <<<<"b">>, <<"/", "b">>, <<"c">>>>
SubdomainNames == {<<"a">>, <<"a", "/">>}

PathEntry(id, perma_subdomain) ==
    [_id |-> JStr(id), perma_subdomain |-> JStr(perma_subdomain)]

\* the stores of n entries: keyed by identifier, so no two entries carry the
\* same one
PathStoresOf(n) ==
    {[i \in 1..n |-> PathEntry(IdNames[f[i]], g[i])] :
        f \in {h \in [1..n -> DOMAIN IdNames] :
                  \A i, j \in 1..n : i < j => h[i] < h[j]},
        g \in [1..n -> SubdomainNames]}

PathStores == UNION {PathStoresOf(n) : n \in 0..MaxImages}

\* cache_all_image_data is about to be called on such a store, no image
\* cached yet
InitCachePaths ==
    /\ n_threads = n_threads_default
    /\ file0 \in {JsonFile(s) : s \in PathStores}
    /\ MetaStart
    /\ Constructed
    /\ PlanIdle
    /\ ImageIdle
    /\ cpc = "idle"
    /\ jobs = <<>>
    /\ image_q = NewQueue
    /\ cache_pool = {}
    /\ kpc = <<>>
    /\ kjob = <<>>
    /\ disk0 = [p \in PathsOf(file0.data) |-> "absent"]
    /\ disk = disk0
    /\ img_http = <<>>
    /\ picks = <<>>
    /\ acked = {}
    /\ later_run = FALSE
    /\ failed_before = {}

SpecCachePaths == InitCachePaths /\ [][NextCache]_vars

\* ================================================================= claims
\* the store a file holds: a missing or malformed file holds no entries
StoreOf(f) == load_or_empty(f)
Pages == 1..Len(urls)
FetchedIds == {e._id : e \in fetched}
Failed(p) == \E i \in DOMAIN http[p] : http[p][i] # codes_all_good

\* C1: on the pooled path download_metadata has returned only when every
\* enqueued page descriptor has been fetched, its batch merged and persisted:
\* both queues are empty, nothing is unacknowledged, no worker or writer holds
\* a batch, and the file is the writer's store.
C1_BarrierComplete ==
    (pc = "returned" /\ uses_pool(urls)) =>
        /\ web_q.items = <<>> /\ web_q.unfinished = 0
        /\ json_q.items = <<>> /\ json_q.unfinished = 0
        /\ \A w \in web_pool : wpc[w] = "idle"
        /\ \A k \in json_pool : jpc[k] = "idle"
        /\ \A p \in Pages : Len(http[p]) >= 1
        /\ persisted = Pages
        /\ \A k \in json_pool : file = dump_json(jstore[k])

\* a pooled run has returned in which a worker served more than one page and
\* entries were fetched
C1_Witness ==
    /\ pc = "returned"
    /\ uses_pool(urls)
    /\ Cardinality(web_pool) < Len(urls)
    /\ fetched # {}

\* C2: after a run that returned, the persisted store is the previous store
\* merged with the fetched entries: its identifiers are the previous ones and
\* the fetched ones, a fetched identifier carries a fetched entry, any other
\* keeps its previous entry.
C2_SupersetMerge ==
    pc = "returned" =>
        /\ file.kind = "json"
        /\ DOMAIN file.data = DOMAIN StoreOf(file0) \cup FetchedIds
        /\ \A i \in DOMAIN file.data :
            IF i \in FetchedIds
                THEN file.data[i] \in fetched /\ file.data[i]._id = i
                ELSE file.data[i] = StoreOf(file0)[i]

\* a run has returned that overwrote one stored entry and kept another
C2_Witness ==
    /\ pc = "returned"
    /\ \E i \in DOMAIN StoreOf(file0) :
        i \in FetchedIds /\ file.data[i] # StoreOf(file0)[i]
    /\ \E i \in DOMAIN StoreOf(file0) :
        i \notin FetchedIds /\ file.data[i] = StoreOf(file0)[i]

\* the threads inside a mutation of the store: the caller between opening and
\* dumping the file, a writer between taking a batch and having persisted it
StoreWriters ==
    (IF pc = "inline_dump" THEN {Caller} ELSE {})
        \cup {JsonWriter(k) : k \in {j \in json_pool : jpc[j] = "write"}}

\* C3: at most one thread is mutating or persisting the store; on the pooled
\* path it is the one aggregator and nothing else ever writes the file, on the
\* single-page path it is the caller and no aggregator is started.
C3_SingleWriter ==
    /\ Cardinality(StoreWriters) <= 1
    /\ IF uses_pool(urls)
          THEN StoreWriters \cup wrote \subseteq {JsonWriter(1)}
          ELSE /\ StoreWriters \cup wrote \subseteq {Caller}
               /\ json_pool = {}

\* the aggregator is writing while a fetch worker holds a fetched batch
C3_Witness ==
    /\ uses_pool(urls)
    /\ StoreWriters = {JsonWriter(1)}
    /\ \E w \in web_pool : wpc[w] = "fetched"

\* the least n with n * page_size >= total
Ceil(total, page_size) ==
    CHOOSE n \in 0..total :
        /\ n * page_size >= total
        /\ n = 0 \/ (n - 1) * page_size < total

\* C4: for every total >= 0, page_size >= 1 and page limit (a non-negative
\* integer, or none), _fetch_media_urls returns the page descriptors 1..N in
\* order, N = min(ceil(total/page_size), limit) with a limit supplied and
\* ceil(total/page_size) with none.
C4_PageCount ==
    p_out.raised = "none" =>
        LET needed == Ceil(p_in.total, p_in.page_size)
            N == IF p_in.page_limit # None
                    THEN min(needed, p_in.page_limit) ELSE needed
        IN p_out.urls = [i \in 1..N |-> i]

\* C5: a probe whose document has no total (a 200 without it, or a non-200
\* read as the empty document) ends the run with an error before any page is
\* fetched and before any thread is started, the store file untouched.
C5_ProbeAbort ==
    probe \in {"no_total", "error_status"} =>
        /\ pc = "raised"
        /\ err = "KeyError"
        /\ web_pool = {} /\ json_pool = {}
        /\ web_q = NewQueue /\ json_q = NewQueue
        /\ \A p \in DOMAIN http : http[p] = <<>>
        /\ wrote = {}
        /\ file = file0

\* the probe returned a failing status and the run over a non-empty store
\* has been aborted
C5_Witness ==
    /\ probe = "error_status"
    /\ pc = "raised"
    /\ file0.kind = "json"
    /\ DOMAIN file0.data # {}

\* C6: a metadata page whose GET returns a non-200 status raises no error, is
\* requested once, and contributes no entry, on either path.
C6_FailedPageIsSilent ==
    \A p \in DOMAIN http :
        Failed(p) =>
            /\ err = "none"
            /\ Len(http[p]) = 1
            /\ pc = "returned" =>
                DOMAIN file.data = DOMAIN StoreOf(file0) \cup FetchedIds

JobPath(n) == jobs[n].local_filename
LastStatus(n) == img_http[n][Len(img_http[n])]

\* C7: under fair scheduling of the cache workers every call of
\* cache_all_image_data returns, whatever the jobs and their outcomes (file
\* present, 200 download, failing download).
C7_BarrierReturns == (cpc = "idle") ~> (cpc = "returned")

\* a run has returned in which one download failed and another succeeded
C7_Witness ==
    /\ cpc = "returned"
    /\ \E n \in DOMAIN jobs : img_http[n] # <<>> /\ LastStatus(n) # codes_all_good
    /\ \E n \in DOMAIN jobs : img_http[n] # <<>> /\ LastStatus(n) = codes_all_good
    /\ acked = DOMAIN jobs

\* C8: a job whose download returned a failing status leaves no file at its
\* cache path, not even an empty one, and raises nothing in its worker; a job
\* that failed in the run before, once processed in this run, has had its
\* download issued again.
C8_FailedDownloadWritesNothing ==
    /\ \A n \in DOMAIN jobs :
        (img_http[n] # <<>> /\ LastStatus(n) # codes_all_good) =>
            disk[JobPath(n)] = "absent"
    /\ \A k \in cache_pool : kpc[k] # "dead"
    /\ \A n \in DOMAIN jobs :
        (later_run /\ n \in failed_before /\ n \in acked) =>
            Len(img_http[n]) = 1

\* in a later run a job that failed before has been downloaded again, failed
\* again and been acknowledged
C8_Witness ==
    /\ later_run
    /\ \E n \in DOMAIN jobs :
        /\ n \in failed_before
        /\ n \in acked
        /\ img_http[n] # <<>> /\ LastStatus(n) # codes_all_good
        /\ disk[JobPath(n)] = "absent"

\* C9: a job whose cache file was present issues no request and leaves the
\* file as it was; the requests of a run, a later run included, are for jobs
\* whose file was absent.
C9_PresentFileIsNoOp ==
    \A n \in DOMAIN jobs :
        /\ disk0[JobPath(n)] = "complete" =>
            img_http[n] = <<>> /\ disk[JobPath(n)] = "complete"
        /\ img_http[n] # <<>> => disk0[JobPath(n)] = "absent"

\* a later run has returned having skipped a present file and requested an
\* absent one
C9_Witness ==
    /\ later_run
    /\ cpc = "returned"
    /\ \E n \in DOMAIN jobs :
        disk0[JobPath(n)] = "complete" /\ n \in acked /\ img_http[n] = <<>>
    /\ \E n \in DOMAIN jobs :
        disk0[JobPath(n)] = "absent" /\ n \in acked /\ img_http[n] # <<>>

\* C10: every enqueued cache job is taken from the queue by exactly one
\* worker: never taken twice, never held by two workers, and taken and
\* acknowledged once the call has returned.
C10_ExactlyOneWorker ==
    /\ \A n \in DOMAIN jobs :
        /\ picks[n] <= 1
        /\ Cardinality({k \in cache_pool : kjob[k] = n}) <= 1
    /\ cpc = "returned" =>
        \A n \in DOMAIN jobs : picks[n] = 1 /\ n \in acked

\* a run over several jobs has returned, each job taken from the queue once
C10_Witness ==
    /\ cpc = "returned"
    /\ Len(jobs) >= 2
    /\ \A n \in DOMAIN jobs : picks[n] = 1

\* every identifier was delivered by one page only
WellFormed == \A e1, e2 \in fetched : e1._id = e2._id => e1 = e2

\* the store the previous file and the fetched entries determine
MergedStore ==
    [i \in DOMAIN StoreOf(file0) \cup FetchedIds |->
        IF i \in FetchedIds
            THEN CHOOSE e \in fetched : e._id = i
            ELSE StoreOf(file0)[i]]

\* C11: for a well-formed response the store a pooled run leaves is the one
\* the previous store and the fetched entries determine, whatever the order
\* in which the workers completed and the aggregator received the batches.
C11_OrderIndependent ==
    (pc = "returned" /\ uses_pool(urls) /\ WellFormed) =>
        file = JsonFile(MergedStore)

\* a pooled run with two workers has returned in which two pages delivered
\* entries of different identifiers
C11_Witness ==
    /\ pc = "returned"
    /\ uses_pool(urls)
    /\ WellFormed
    /\ Cardinality(web_pool) >= 2
    /\ \E e1, e2 \in fetched : e1.rev # e2.rev

\* C18: with N > 1 page descriptors download_metadata starts min(N, n_threads)
\* fetch workers and one aggregator; with N = 1 it starts neither and the
\* fetch and the merge are the caller's.
C18_PoolSize ==
    /\ (pc \in {"join_web", "join_json", "returned"} /\ Len(urls) > 1) =>
        /\ Cardinality(web_pool) = min(Len(urls), n_threads)
        /\ Cardinality(json_pool) = 1
    /\ Len(urls) = 1 =>
        /\ web_pool = {} /\ json_pool = {}
        /\ web_q = NewQueue /\ json_q = NewQueue
        /\ wrote \subseteq {Caller}
        /\ pc = "returned" => (wrote = {Caller} /\ Len(http[1]) = 1)

\* a pooled run with the default n_threads has started fewer workers than
\* n_threads
C18_Witness ==
    /\ pc = "join_web"
    /\ n_threads = n_threads_default
    /\ Cardinality(web_pool) = Len(urls)
    /\ Cardinality(web_pool) < n_threads

\* C19: with a probe total of 0 (no page descriptor) download_metadata raises
\* nothing and leaves the store's entries as they were.
C19_ZeroTotal ==
    (probe = "total" /\ urls = <<>>) =>
        /\ err = "none"
        /\ StoreOf(file) = StoreOf(file0)

\* the store file the aggregator of a pooled run would leave after the one
\* batch a worker makes of response r to page 1
pooled_one_page(f, r) ==
    dump_json(writer_merge(new_json_writer_store(f), batch_of(1, r)))

\* C15: on one page descriptor the inline path leaves the store a pooled run
\* of one worker and the aggregator would leave, for every previous store
\* file and every response to the page.
C15_InlineEqualsPooled ==
    (probe = "total" /\ Len(urls) = 1 /\ pc \in {"returned", "raised"}) =>
        /\ pc = "returned"
        /\ file = pooled_one_page(file0, RecordedResponse(1))

\* the fetched entries as a mapping of identifier to entry
FetchedStore ==
    [i \in FetchedIds |-> CHOOSE e \in fetched : e._id = i]

\* C16: a missing or malformed store file is not fatal to download_metadata:
\* nothing is raised by reading it, a run that fetched its pages returns, and
\* the store then holds the fetched entries and nothing else.
C16_BadStoreIsEmpty ==
    (~isfile(file0) \/ file0.kind = "malformed") =>
        /\ err # "ValueError"
        /\ pc = "raised" => file = file0
        /\ pc = "returned" =>
            /\ file.kind = "json"
            /\ DOMAIN file.data = FetchedIds
            /\ \A i \in FetchedIds : file.data[i] \in fetched /\ file.data[i]._id = i
            /\ WellFormed => file.data = FetchedStore

\* the single-page path has returned over a malformed store file with
\* fetched entries
C16_Witness ==
    /\ file0.kind = "malformed"
    /\ pc = "returned"
    /\ Len(urls) = 1
    /\ fetched # {}
    /\ file = JsonFile(FetchedStore)

\* C12: a second download_metadata run against the unchanged remote leaves
\* the store with the identifier-to-entry mapping the first run left.
C12_RerunIdempotent ==
    (run = 2 /\ pc = "returned") => StoreOf(file) = StoreOf(file0)

\* C12 (amended): the same, for a remote whose pages share no identifier.
C12_RerunIdempotentWellFormed ==
    (run = 2 /\ pc = "returned" /\ WellFormed) =>
        StoreOf(file) = StoreOf(file0)

\* a second pooled run has returned over the store the first run wrote, with
\* entries fetched from two pages
C12_Witness ==
    /\ run = 2
    /\ pc = "returned"
    /\ WellFormed
    /\ uses_pool(urls)
    /\ isfile(file0)
    /\ \E e1, e2 \in fetched : e1.rev # e2.rev
    /\ \A p \in Pages : Len(http[p]) = 2

\* C14: the access token is resolved once per run, by the read made at the
\* construction of the Grid; no later read resolves it again, so no
\* resolution happens once download_metadata plans or runs its pools.
C14_ResolvedOnce ==
    pc # "new" => resolutions = <<"construct">>

\* the value the flattening is to give a name: the nested value when the
\* container key and the nested key are both present, null otherwise
FlattenExpected(raw, name) ==
    LET keys == supplementary_attributes_to_flatten[name]
    IN IF keys[1] \in DOMAIN raw
          /\ raw[keys[1]].t = "dict"
          /\ keys[2] \in DOMAIN raw[keys[1]].v
        THEN raw[keys[1]].v[keys[2]]
        ELSE JNull

\* C20: for every raw document the construction of an Image raises nothing,
\* each flattened field is the nested value when container key and nested key
\* are present and null otherwise, and every absent top-level field is null.
C20_FlattenNeverRaises ==
    built # <<>> =>
        \A i \in DOMAIN built :
            /\ built[i].raised = "none"
            /\ \A name \in DOMAIN supplementary_attributes_to_flatten :
                built[i].details[name] = FlattenExpected(docs[i], name)
            /\ \A k \in top_level_attributes :
                k \notin DOMAIN docs[i] => built[i].details[k] = JNull

\* the path images/<subdomain>/<identifier>-<width>.jpg
PathForm(perma_subdomain, id, width) ==
    <<"i", "m", "a", "g", "e", "s", "/">> \o format_value(perma_subdomain)
        \o <<"/">> \o format_value(id) \o <<"-">> \o format_value(width)
        \o <<".", "j", "p", "g">>

\* two documents carry the same subdomain and identifier
SameSubdomainAndId(d1, d2) ==
    /\ dict_get(d1, "perma_subdomain") = dict_get(d2, "perma_subdomain")
    /\ dict_get(d1, "_id") = dict_get(d2, "_id")

\* the width a path is to carry: the requested width when one is given and
\* is not zero, the document's own width otherwise
WidthFor(d) ==
    IF width_arg.t = "int" /\ width_arg.v # 0
        THEN width_arg ELSE dict_get(d, "width")

\* C17: two Images built, with the same requested width, from documents that
\* agree on subdomain and identifier have the same local_filename, whatever
\* their other fields are.
C17_PathIsFunction ==
    (Len(built) = 2 /\ SameSubdomainAndId(docs[1], docs[2])) =>
        built[1].local_filename = built[2].local_filename

\* C17 (amended): two Images built from documents that agree on subdomain,
\* identifier and the width cached (the requested width, or the document's
\* own when none or zero is requested) have the same local_filename, which is
\* images/<subdomain>/<identifier>-<width>.jpg.
C17_PathIsFunctionOfCachedWidth ==
    Len(built) = 2 =>
        /\ (SameSubdomainAndId(docs[1], docs[2])
                /\ WidthFor(docs[1]) = WidthFor(docs[2])) =>
            built[1].local_filename = built[2].local_filename
        /\ \A i \in DOMAIN built :
            built[i].local_filename =
                PathForm(docs[i].perma_subdomain, docs[i]._id,
                         WidthFor(docs[i]))

\* two Images built with a requested width from documents that differ in
\* their own width, description and preset only
C17_Witness ==
    /\ Len(built) = 2
    /\ truthy_value(width_arg)
    /\ SameSubdomainAndId(docs[1], docs[2])
    /\ "width" \in DOMAIN docs[1] /\ "width" \in DOMAIN docs[2]
    /\ docs[1].width # docs[2].width
    /\ DOMAIN docs[1] # DOMAIN docs[2]
    /\ built[1].local_filename = built[2].local_filename

\* no two jobs of the run share a cache path, and no two workers are
\* downloading to one path
DistinctPaths ==
    /\ \A n, m \in DOMAIN jobs : n # m => JobPath(n) # JobPath(m)
    /\ \A k1, k2 \in cache_pool :
        (k1 # k2 /\ kpc[k1] = "download" /\ kpc[k2] = "download") =>
            JobPath(kjob[k1]) # JobPath(kjob[k2])

\* no subdomain and no identifier of the store holds the path separator
SeparatorFree ==
    \A i \in DOMAIN StoreOf(file0) :
        /\ \A c \in DOMAIN StoreOf(file0)[i]._id.v :
            StoreOf(file0)[i]._id.v[c] # "/"
        /\ \A c \in DOMAIN StoreOf(file0)[i].perma_subdomain.v :
            StoreOf(file0)[i].perma_subdomain.v[c] # "/"

\* C13: no two cache jobs of one run have the same local cache path, so no
\* two cache workers write the same file.
C13_DistinctPaths ==
    cpc # "idle" => DistinctPaths

\* C13 (amended): the same, for a store whose subdomains and identifiers are
\* strings without the path separator.
C13_DistinctPathsNoSeparator ==
    (cpc # "idle" /\ SeparatorFree) => DistinctPaths

\* two workers are downloading two jobs of a separator-free store at once
C13_Witness ==
    /\ cpc = "join"
    /\ SeparatorFree
    /\ \E k1, k2 \in cache_pool :
        /\ k1 # k2
        /\ kpc[k1] = "download" /\ kpc[k2] = "download"
        /\ kjob[k1] # kjob[k2]
        /\ JobPath(kjob[k1]) # JobPath(kjob[k2])

====
